---- MODULE Spec2Model ----
(***************************************************************************)
(* serde-altar: a type-directed binary codec for Terraria world files.     *)
(*                                                                         *)
(* The model follows the crate's two halves:                               *)
(*   ser/  WriteSerializer, the serde Serializer hooks, the four custom    *)
(*         collection hooks and the Serialize impls of the Vec wrappers;   *)
(*   de/   ReadDeserializer, the serde Deserializer hooks, the four custom *)
(*         collection hooks, the ValueSized accessor and the visitors.     *)
(*                                                                         *)
(* Bytes are 0..255.  A usize is kept as its 8 little-endian bytes, so     *)
(* that `as usize` casts of negative prefixes and lengths past i32::MAX    *)
(* keep their width.  Fixed-width scalars are integers.                    *)
(***************************************************************************)
EXTENDS Integers, Sequences, FiniteSets, TLC

(***************************************************************************)
(* Bounds of the model.                                                    *)
(***************************************************************************)
\* Longest source stream handed to a decode.
MaxStream == 4
\* Most next_element calls followed on one accessor (the visitor loops of
\* de/visitor.rs have no bound of their own).
MaxCalls == 4
\* Longest explicit collection handed to an encode.
MaxLen == 3
\* The most payload bytes in a stream a String is asked of.
MaxText == 3
\* The number of four-byte chars in a text whose length takes two varint
\* bytes.
LongText == 32
\* The longest of the short streams handed to read_uleb128.
MaxVarint == 2

(***************************************************************************)
(* Types and values.  A type is [k |-> kind, sub |-> <<component types>>]; *)
(* a value is [ty |-> type, v |-> payload].                                *)
(***************************************************************************)
Scalar(k) == [k |-> k, sub |-> <<>>]
TBool == Scalar("bool")
TU8 == Scalar("u8")
TI16 == Scalar("i16")
TI32 == Scalar("i32")
\* (A, B, ...): serde's tuple impls.
TTuple(ts) == [k |-> "tuple", sub |-> ts]
\* struct S { a: A, b: B, ... } with derived impls.
TStruct(ts) == [k |-> "struct", sub |-> ts]
\* struct name { keys[1]: ts[1], ... }: the names serde hands to the hooks.
TNamedStruct(name, keys, ts) ==
  [k |-> "struct", sub |-> ts, name |-> name, keys |-> keys]
\* struct name(A, B, ...).
TTupleStruct(name, ts) == [k |-> "tuple_struct", sub |-> ts, name |-> name]
\* The field names of a struct type.
KeysOf(t) ==
  IF "keys" \in DOMAIN t THEN t.keys ELSE [i \in 1..Len(t.sub) |-> "field"]
TVecI16(t) == [k |-> "VecI16", sub |-> <<t>>]
TVecI32(t) == [k |-> "VecI32", sub |-> <<t>>]
TVecULEB128(t) == [k |-> "VecULEB128", sub |-> <<t>>]
TVecI16Flags == [k |-> "VecI16Flags", sub |-> <<TBool>>]

\* Option<T>; the payload is <<>> for None and <<x>> for Some(x).
TOption(t) == [k |-> "option", sub |-> <<t>>]
\* (), a unit struct, char, a map, serde_bytes' Bytes and ByteBuf, Vec<T>.
TUnit == Scalar("unit")
TUnitStruct == Scalar("unit_struct")
TChar == Scalar("char")
TMap == Scalar("map")
TBytes == Scalar("bytes")
TByteBuf == Scalar("byte_buf")
TSeq(t) == [k |-> "seq", sub |-> <<t>>]
\* An enum; the payload is [variant |-> the variant's shape, fields |-> its
\* values].
TEnum == Scalar("enum")
\* Types that deserialize through deserialize_any, deserialize_identifier
\* and deserialize_ignored_any.
TAny == Scalar("any")
TIdentifier == Scalar("identifier")
TIgnoredAny == Scalar("ignored_any")
\* The kinds whose hooks the format has no representation for.
UnsupportedKinds ==
  {"option", "unit", "unit_struct", "char", "map", "bytes", "byte_buf", "seq",
   "enum", "any", "identifier", "ignored_any"}

TI8 == Scalar("i8")
TU16 == Scalar("u16")
\* u32, i64 and u64 values are sequences of 16-bit limbs, most significant
\* first (2 for u32, 4 for i64 and u64); the top limb of an i64 is signed.
TU32 == Scalar("u32")
TI64 == Scalar("i64")
TU64 == Scalar("u64")
WideKinds == {"u32", "i64", "u64"}
\* String; the payload is the sequence of its chars (Unicode scalar values).
TString == Scalar("string")

ScalarKinds == {"bool", "u8", "i16", "i32", "i8", "u16", "u32", "i64", "u64"}
ProductKinds == {"tuple", "struct", "tuple_struct"}
VecKinds == {"VecI16", "VecI32", "VecULEB128", "VecI16Flags"}

Val(t, p) == [ty |-> t, v |-> p]

(***************************************************************************)
(* Bytes and machine integers.                                             *)
(***************************************************************************)
Zeros(n) == [i \in 1..n |-> 0]

RECURSIVE LeNat(_, _)
\* The w low-order bytes of the natural v, least significant first.
LeNat(v, w) == IF w = 0 THEN <<>> ELSE <<v % 256>> \o LeNat(v \div 256, w - 1)

RECURSIVE NatLe(_)
\* The natural a little-endian byte string denotes.
NatLe(b) == IF b = <<>> THEN 0 ELSE Head(b) + 256 * NatLe(Tail(b))

\* {integer}::to_le_bytes at width w bytes (two's complement when negative).
to_le_bytes(v, w) ==
  IF v >= 0 THEN LeNat(v, w)
  ELSE LET c == LeNat(-(v + 1), w) IN [i \in 1..w |-> 255 - c[i]]

\* {signed integer}::from_le_bytes.
from_le_bytes_signed(b) ==
  IF b[Len(b)] >= 128
  THEN -(NatLe([i \in 1..Len(b) |-> 255 - b[i]])) - 1
  ELSE NatLe(b)

\* {unsigned integer}::from_le_bytes.
from_le_bytes_unsigned(b) == NatLe(b)

\* to_le_bytes at width w bytes for an integer held as 16-bit limbs.
to_le_bytes_wide(v, w) ==
  [i \in 1..w |-> to_le_bytes(v[Len(v) - ((i - 1) \div 2)], 2)[((i - 1) % 2) + 1]]

\* from_le_bytes for an integer held as 16-bit limbs.
from_le_bytes_wide(b, signed) ==
  [j \in 1..(Len(b) \div 2) |->
     LET limb == SubSeq(b, Len(b) - 2 * j + 1, Len(b) - 2 * j + 2) IN
       IF signed /\ j = 1 THEN from_le_bytes_signed(limb)
       ELSE from_le_bytes_unsigned(limb)]

\* A u64 is its 8 little-endian bytes; v.into() for a small natural v.
into_u64(v) == to_le_bytes(v, 8)
u64_is_zero(s) == \A i \in 1..Len(s) : s[i] = 0
\* u64 >> 7.
u64_shr7(s) ==
  [i \in 1..Len(s) |->
     (s[i] \div 128) + (IF i < Len(s) THEN (s[i + 1] % 128) * 2 ELSE 0)]

\* char::encode_utf8.
encode_utf8(c) ==
  CASE c < 128 -> <<c>>
    [] c >= 128 /\ c < 2048 -> <<192 + (c \div 64), 128 + (c % 64)>>
    [] c >= 2048 /\ c < 65536 ->
         <<224 + (c \div 4096), 128 + ((c \div 64) % 64), 128 + (c % 64)>>
    [] OTHER ->
         <<240 + (c \div 262144), 128 + ((c \div 4096) % 64),
           128 + ((c \div 64) % 64), 128 + (c % 64)>>

RECURSIVE as_bytes(_)
\* str::as_bytes: the UTF-8 bytes of the chars, in order.
as_bytes(v) == IF v = <<>> THEN <<>> ELSE encode_utf8(Head(v)) \o as_bytes(Tail(v))

\* The length of the UTF-8 sequence a byte starts, 0 if it starts none.
utf8_char_width(b) ==
  CASE b < 128 -> 1
    [] b >= 194 /\ b <= 223 -> 2
    [] b >= 224 /\ b <= 239 -> 3
    [] b >= 240 /\ b <= 244 -> 4
    [] OTHER -> 0

RECURSIVE from_utf8(_, _)
\* String::from_utf8 on the bytes b after the chars got: every sequence
\* must be complete, its second byte in the range its first allows (no
\* overlong form, no surrogate, nothing past U+10FFFF) and its later bytes
\* in 80..BF.
from_utf8(b, got) ==
  IF b = <<>> THEN [ok |-> TRUE, chars |-> got]
  ELSE LET n == utf8_char_width(b[1])
           lo == CASE b[1] = 224 -> 160 [] b[1] = 240 -> 144 [] OTHER -> 128
           hi == CASE b[1] = 237 -> 159 [] b[1] = 244 -> 143 [] OTHER -> 191
           valid ==
             /\ n > 0
             /\ n <= Len(b)
             /\ n >= 2 => (b[2] >= lo /\ b[2] <= hi)
             /\ \A i \in 3..n : b[i] >= 128 /\ b[i] <= 191
           c == CASE n = 1 -> b[1]
                  [] n = 2 -> (b[1] % 32) * 64 + (b[2] % 64)
                  [] n = 3 -> (b[1] % 16) * 4096 + (b[2] % 64) * 64 + (b[3] % 64)
                  [] n = 4 -> (b[1] % 8) * 262144 + (b[2] % 64) * 4096
                              + (b[3] % 64) * 64 + (b[4] % 64)
       IN  IF valid THEN from_utf8(SubSeq(b, n + 1, Len(b)), Append(got, c))
           ELSE [ok |-> FALSE, chars |-> <<>>]

\* The target's pointer width in bytes (a 64-bit build).
UsizeBytes == 8

\* A usize is its UsizeBytes little-endian bytes.
as_usize(v) == to_le_bytes(v, UsizeBytes)
usize_is_zero(s) == \A i \in 1..Len(s) : s[i] = 0
\* usize / 8.
usize_div8(s) ==
  [i \in 1..Len(s) |->
     (s[i] \div 8) + (IF i < Len(s) THEN (s[i + 1] % 8) * 32 ELSE 0)]
\* i16::try_from(usize): the value, or -1 when it does not fit.
i16_try_from(s) ==
  IF (\A i \in 3..Len(s) : s[i] = 0) /\ s[2] < 128
  THEN NatLe(SubSeq(s, 1, 2)) ELSE -1
\* i32::try_from(usize): the value, or -1 when it does not fit.
i32_try_from(s) ==
  IF (\A i \in 5..Len(s) : s[i] = 0) /\ s[4] < 128
  THEN NatLe(SubSeq(s, 1, 4)) ELSE -1

(***************************************************************************)
(* crate::Error (error.rs) and crate::Result.                              *)
(***************************************************************************)
ErrMessage(m) == [kind |-> "Message", msg |-> m]
ErrUnsupported == [kind |-> "Unsupported", msg |-> ""]
ErrIO == [kind |-> "IO", msg |-> ""]
ErrOverflow == [kind |-> "Overflow", msg |-> ""]
NoErr == [kind |-> "none", msg |-> ""]

(***************************************************************************)
(* The sink.  W is any std::io::Write.  A Vec<u8> accepts the whole buffer *)
(* in one write call; a writer may also accept only part of it and return  *)
(* the count, as "Short" does, which takes at most ShortWrite bytes per    *)
(* write call.  Neither fails.  write_all calls write until the buffer is  *)
(* gone.                                                                   *)
(***************************************************************************)
VARIABLE sink   \* W, the kind of sink the serializer is built over

\* Most bytes one write call of a "Short" sink takes.
ShortWrite == 1
Sinks == {"Vec", "Short"}
\* How many of n offered bytes one write call takes.
sink_accepts(n) ==
  IF sink = "Vec" \/ n <= ShortWrite THEN n ELSE ShortWrite
\* std::io::Write::write: appends what the sink accepts of buf.
write(w, buf) == w \o SubSeq(buf, 1, sink_accepts(Len(buf)))
\* std::io::Write::write_all: appends all of buf.
write_all(w, buf) == w \o buf

\* The outcome of a serializer call: the sink afterwards and Ok or the error.
SerOk(w) == [ok |-> TRUE, w |-> w, err |-> NoErr]
SerErr(w, e) == [ok |-> FALSE, w |-> w, err |-> e]

RECURSIVE leb128_write_unsigned(_, _)
\* leb128::write::unsigned: the low seven bits of val, with the continuation
\* bit while more remain, then the same for val >> 7.
leb128_write_unsigned(w, val) ==
  LET rest == u64_shr7(val)
      byte == (val[1] % 128) + (IF u64_is_zero(rest) THEN 0 ELSE 128)
      out == write_all(w, <<byte>>)
  IN  IF u64_is_zero(rest) THEN out ELSE leb128_write_unsigned(out, rest)

\* A write_uleb128 that writes the eight bytes of val as they are, which
\* C18 excludes.
write_uleb128_raw(w, val) == SerOk(write_all(w, val))
\* WriteSerializer::write_uleb128.
write_uleb128(w, val) == SerOk(leb128_write_unsigned(w, val))

(***************************************************************************)
(* ser/serializer.rs: serde::ser::Serializer for &mut WriteSerializer.     *)
(***************************************************************************)
serialize_u8(w, v) == SerOk(write_all(w, to_le_bytes(v, 1)))
serialize_bool(w, v) == serialize_u8(w, IF v THEN 1 ELSE 0)
serialize_i16(w, v) == SerOk(write_all(w, to_le_bytes(v, 2)))
serialize_i32(w, v) == SerOk(write_all(w, to_le_bytes(v, 4)))
serialize_i8(w, v) == SerOk(write_all(w, to_le_bytes(v, 1)))
serialize_i64(w, v) == SerOk(write_all(w, to_le_bytes_wide(v, 8)))
\* A serialize_u16 that writes the high byte first, which C16 excludes.
serialize_u16_be(w, v) == SerOk(write_all(w, <<v \div 256, v % 256>>))
serialize_u16(w, v) == SerOk(write_all(w, to_le_bytes(v, 2)))
serialize_u32(w, v) == SerOk(write_all(w, to_le_bytes_wide(v, 4)))
serialize_u64(w, v) == SerOk(write_all(w, to_le_bytes_wide(v, 8)))
serialize_char(w, v) == SerErr(w, ErrUnsupported)
\* A serialize_str that writes the number of chars as the length, which C20
\* excludes.
serialize_str_chars(w, v) ==
  SerOk(write(write_uleb128(w, into_u64(Len(v))).w, as_bytes(v)))
\* serialize_str after `self.write_uleb128(size)` gave p: `?`, then the write
\* of v.as_bytes().
write_as_bytes(p, v) == IF ~p.ok THEN p ELSE SerOk(write(p.w, as_bytes(v)))
serialize_str(w, v) ==
  write_as_bytes(write_uleb128(w, into_u64(Len(as_bytes(v)))), v)
serialize_bytes(w, v) == SerErr(w, ErrUnsupported)
serialize_none(w) == SerErr(w, ErrUnsupported)
serialize_some(w, value) == SerErr(w, ErrUnsupported)
serialize_unit(w) == SerErr(w, ErrUnsupported)
serialize_unit_struct(w) == SerErr(w, ErrUnsupported)
serialize_unit_variant(w) == SerErr(w, ErrUnsupported)
serialize_seq(w, len) == SerErr(w, ErrUnsupported)
serialize_tuple_variant(w, len) == SerErr(w, ErrUnsupported)
serialize_map(w, len) == SerErr(w, ErrUnsupported)
serialize_struct_variant(w, len) == SerErr(w, ErrUnsupported)
\* A serialize_tuple that frames the tuple with its arity, which C10 excludes.
serialize_tuple_framed(w, len) == SerOk(write_all(w, <<len>>))
\* Tuples are stored as simple sequences of values: nothing is written.
serialize_tuple(w, len) == SerOk(w)
serialize_tuple_struct(w, len) == serialize_tuple(w, len)
serialize_struct(w, len) == serialize_tuple(w, len)
\* SerializeTuple::end / SerializeSeq::end: no end marker.
serialize_end(w) == SerOk(w)

(***************************************************************************)
(* ser/serializer.rs: crate::ser::Serializer, the four collection hooks.   *)
(* Each writes len.to_le_bytes() of the integer type it is handed.         *)
(***************************************************************************)
serialize_vec_i16flags(w, len) == SerOk(write(w, to_le_bytes(len, 2)))
\* len is a usize here.
serialize_vec_uleb128(w, len) == SerOk(write(w, len))
\* A serialize_vec_i16 that writes the count four bytes wide, which C3 excludes.
serialize_vec_i16_wide(w, len) == SerOk(write(w, to_le_bytes(len, 4)))
serialize_vec_i16(w, len) == SerOk(write(w, to_le_bytes(len, 2)))
serialize_vec_i32(w, len) == SerOk(write(w, to_le_bytes(len, 4)))

(***************************************************************************)
(* vec.rs: the four wrappers around a Vec.  The payload of a collection    *)
(* value is [n |-> self.0.len() as a usize, at |-> the elements]; when at  *)
(* is shorter than n it holds the one element the Vec repeats              *)
(* (vec![x; n]), which is how lengths past i16::MAX and i32::MAX are fed.  *)
(***************************************************************************)
VecOf(t, items) == Val(t, [n |-> as_usize(Len(items)), at |-> items])
VecRepeat(t, n, x) == Val(t, [n |-> n, at |-> <<x>>])
VecLen(value) == value.v.n
VecItems(value) ==
  IF as_usize(Len(value.v.at)) = value.v.n THEN value.v.at
  ELSE [i \in 1..NatLe(SubSeq(value.v.n, 1, 4)) |-> value.v.at[1]]

(***************************************************************************)
(* serde::ser::Serialize: the impl each type brings to a serde Serializer. *)
(* Scalars, tuples and derived structs are serde's own impls; the impls of *)
(* the four wrappers are those of ser/serialize.rs, which refuse.          *)
(***************************************************************************)
CannotSerialize(kind) ==
  CASE kind = "VecI16Flags" ->
         ErrMessage("Cannot serialize VecI16Flags with the serde Serializer")
    [] kind = "VecULEB128" ->
         ErrMessage("Cannot serialize VecULEB128 with the serde Serializer")
    [] kind = "VecI16" ->
         ErrMessage("Cannot serialize VecI16 with the serde Serializer")
    [] kind = "VecI32" ->
         ErrMessage("Cannot serialize VecI32 with the serde Serializer")

RECURSIVE serde_Serialize(_, _)
RECURSIVE serialize_each(_, _)
RECURSIVE serialize_fields(_, _, _)

\* SerializeSeq::serialize_element, SerializeTuple::serialize_element and the
\* serialize_field of structs: value.serialize(&mut **self).
serialize_element(w, value) == serde_Serialize(value, w)

RECURSIVE serialize_each_all(_, _)
\* An element loop that goes on after an element failed and reports the
\* first failure at the end, which C14 excludes.
serialize_each_all(items, w) ==
  IF items = <<>> THEN SerOk(w)
  ELSE LET r == serialize_element(w, Head(items))
           n == serialize_each_all(Tail(items), r.w)
       IN  IF r.ok THEN n ELSE SerErr(n.w, r.err)

\* `for element in ... { seq.serialize_element(&element)?; }` on sink w.
serialize_each(items, w) ==
  IF items = <<>> THEN SerOk(w)
  ELSE LET r == serialize_element(w, Head(items)) IN
       IF r.ok THEN serialize_each(Tail(items), r.w) ELSE r

\* serialize_newtype_variant(name, index, variant, value): value.serialize(self).
serialize_newtype_variant(w, value) == serde_Serialize(value, w)

\* A SerializeStruct::serialize_field that writes a tag for the key, which
\* C11 excludes.
struct_serialize_field_keyed(w, key, value) ==
  serialize_element(write_all(w, <<IF key = "field" THEN 0 ELSE 1>>), value)
\* SerializeStruct::serialize_field(key, value): the key is ignored.
struct_serialize_field(w, key, value) == serialize_element(w, value)
\* SerializeTupleStruct::serialize_field(value).
tuple_struct_serialize_field(w, value) == serialize_element(w, value)

\* The serialize_field calls of a derived struct impl, one per field in
\* declared order, on sink w.
serialize_fields(keys, items, w) ==
  IF items = <<>> THEN SerOk(w)
  ELSE LET r == struct_serialize_field(w, Head(keys), Head(items)) IN
       IF r.ok THEN serialize_fields(Tail(keys), Tail(items), r.w) ELSE r

serde_Serialize(value, w) ==
  CASE value.ty.k = "bool" -> serialize_bool(w, value.v)
    [] value.ty.k = "u8" -> serialize_u8(w, value.v)
    [] value.ty.k = "i16" -> serialize_i16(w, value.v)
    [] value.ty.k = "i32" -> serialize_i32(w, value.v)
    [] value.ty.k = "i8" -> serialize_i8(w, value.v)
    [] value.ty.k = "i64" -> serialize_i64(w, value.v)
    [] value.ty.k = "u16" -> serialize_u16(w, value.v)
    [] value.ty.k = "u32" -> serialize_u32(w, value.v)
    [] value.ty.k = "u64" -> serialize_u64(w, value.v)
    [] value.ty.k = "string" -> serialize_str(w, value.v)
    [] value.ty.k = "tuple" ->
         LET s == serialize_tuple(w, Len(value.v))
             f == serialize_each(value.v, s.w)
         IN  IF ~s.ok THEN s ELSE IF ~f.ok THEN f ELSE serialize_end(f.w)
    [] value.ty.k = "tuple_struct" ->
         LET s == serialize_tuple_struct(w, Len(value.v))
             f == serialize_each(value.v, s.w)
         IN  IF ~s.ok THEN s ELSE IF ~f.ok THEN f ELSE serialize_end(f.w)
    [] value.ty.k = "struct" ->
         LET s == serialize_struct(w, Len(value.v))
             f == serialize_fields(KeysOf(value.ty), value.v, s.w)
         IN  IF ~s.ok THEN s ELSE IF ~f.ok THEN f ELSE serialize_end(f.w)
    [] value.ty.k = "option" ->
         IF value.v = <<>> THEN serialize_none(w) ELSE serialize_some(w, value.v[1])
    [] value.ty.k = "unit" -> serialize_unit(w)
    [] value.ty.k = "unit_struct" -> serialize_unit_struct(w)
    [] value.ty.k = "char" -> serialize_char(w, value.v)
    [] value.ty.k = "map" -> serialize_map(w, Len(value.v))
    [] value.ty.k \in {"bytes", "byte_buf"} -> serialize_bytes(w, value.v)
    [] value.ty.k = "seq" -> serialize_seq(w, Len(value.v))
    [] value.ty.k = "enum" ->
         (CASE value.v.variant = "unit" -> serialize_unit_variant(w)
            [] value.v.variant = "newtype" ->
                 serialize_newtype_variant(w, value.v.fields[1])
            [] value.v.variant = "tuple" ->
                 serialize_tuple_variant(w, Len(value.v.fields))
            [] value.v.variant = "struct" ->
                 serialize_struct_variant(w, Len(value.v.fields)))
    [] value.ty.k \in VecKinds -> SerErr(w, CannotSerialize(value.ty.k))

(***************************************************************************)
(* ser/serialize.rs: crate::ser::Serialize for the four wrappers.          *)
(***************************************************************************)
Serialize_VecI16Flags(value, w) ==
  LET bit_len == i16_try_from(VecLen(value))
      should_add_one == (bit_len % 8) # 0
      len == (bit_len \div 8) + (IF should_add_one THEN 1 ELSE 0)
      seq == serialize_vec_i16flags(w, len)
      e == serialize_each(VecItems(value), seq.w)
  IN  IF bit_len < 0
      THEN SerErr(w, ErrMessage("Vec length does not fit in a i16"))
      ELSE IF ~seq.ok THEN seq ELSE IF ~e.ok THEN e ELSE serialize_end(e.w)

Serialize_VecULEB128(value, w) ==
  LET len == VecLen(value)
      seq == serialize_vec_uleb128(w, len)
      e == serialize_each(VecItems(value), seq.w)
  IN  IF ~seq.ok THEN seq ELSE IF ~e.ok THEN e ELSE serialize_end(e.w)

Serialize_VecI16(value, w) ==
  LET len == i16_try_from(VecLen(value))
      seq == serialize_vec_i16(w, len)
      e == serialize_each(VecItems(value), seq.w)
  IN  IF len < 0
      THEN SerErr(w, ErrMessage("Vec length does not fit in a i16"))
      ELSE IF ~seq.ok THEN seq ELSE IF ~e.ok THEN e ELSE serialize_end(e.w)

Serialize_VecI32(value, w) ==
  LET len == i32_try_from(VecLen(value))
      seq == serialize_vec_i32(w, len)
      e == serialize_each(VecItems(value), seq.w)
  IN  IF len < 0
      THEN SerErr(w, ErrMessage("Vec length does not fit in a i32"))
      ELSE IF ~seq.ok THEN seq ELSE IF ~e.ok THEN e ELSE serialize_end(e.w)

\* value.serialize(&mut ser): the crate's impl for the four wrappers, the
\* serde impl for every type that has no other.
Serialize(value, w) ==
  CASE value.ty.k = "VecI16Flags" -> Serialize_VecI16Flags(value, w)
    [] value.ty.k = "VecULEB128" -> Serialize_VecULEB128(value, w)
    [] value.ty.k = "VecI16" -> Serialize_VecI16(value, w)
    [] value.ty.k = "VecI32" -> Serialize_VecI32(value, w)
    [] OTHER -> serde_Serialize(value, w)

\* A to_writer that starts from an empty sink, which C23 excludes.
to_writer_fresh(w, value) == Serialize(value, <<>>)
\* ser/mod.rs: to_writer(writer, value).
to_writer(w, value) == Serialize(value, w)

(***************************************************************************)
(* The source.  R is an in-memory byte slice: read copies as many bytes as *)
(* remain, at most the buffer's length, reports how many, and never fails. *)
(***************************************************************************)
Min(a, b) == IF a < b THEN a ELSE b

\* self.reader.read(&mut buf) on a zeroed buf of n bytes: the buffer
\* afterwards (bytes not read stay 0) and the unread rest of the stream.
read(r, n) ==
  LET got == Min(n, Len(r)) IN
  [buf |-> SubSeq(r, 1, got) \o Zeros(n - got),
   rest |-> SubSeq(r, got + 1, Len(r))]

\* de/deserializer.rs: ReadDeserializer::read_bytes::<N>; the count that
\* read returns is dropped and the buffer is returned as it stands.
read_bytes(r, n) == read(r, n)

\* The position of the first byte without the continuation bit, 0 if none.
uleb128_end(r) ==
  IF \E i \in 1..Len(r) : r[i] < 128
  THEN CHOOSE i \in 1..Len(r) : r[i] < 128 /\ \A j \in 1..(i - 1) : r[j] >= 128
  ELSE 0

\* Bit i (from 0) of the value whose 7-bit groups are the first n bytes of r.
uleb128_bit(r, n, i) ==
  IF (i \div 7) + 1 <= n
  THEN ((r[(i \div 7) + 1] % 128) \div (2 ^ (i % 7))) % 2
  ELSE 0

\* ReadDeserializer::read_uleb128: leb128::read::unsigned reads byte by byte
\* until a byte without the continuation bit; its errors (the stream ends,
\* more than 64 bits) all become Error::IO; usize::try_from(u64) cannot fail
\* on a 64-bit target.
read_uleb128(r) ==
  LET n == uleb128_end(r)
      fits == n <= 9 \/ (n = 10 /\ r[10] <= 1)
  IN  IF n = 0 \/ ~fits
      THEN [ok |-> FALSE, size |-> as_usize(0), err |-> ErrIO,
            rest |-> IF n = 0 THEN <<>> ELSE SubSeq(r, n + 1, Len(r))]
      ELSE [ok |-> TRUE, err |-> NoErr,
            size |-> [j \in 1..UsizeBytes |->
                        uleb128_bit(r, n, 8 * (j - 1))
                        + 2 * uleb128_bit(r, n, 8 * (j - 1) + 1)
                        + 4 * uleb128_bit(r, n, 8 * (j - 1) + 2)
                        + 8 * uleb128_bit(r, n, 8 * (j - 1) + 3)
                        + 16 * uleb128_bit(r, n, 8 * (j - 1) + 4)
                        + 32 * uleb128_bit(r, n, 8 * (j - 1) + 5)
                        + 64 * uleb128_bit(r, n, 8 * (j - 1) + 6)
                        + 128 * uleb128_bit(r, n, 8 * (j - 1) + 7)],
            rest |-> SubSeq(r, n + 1, Len(r))]

\* The outcome of a deserializer call: Ok(val) or the error, and the unread
\* rest of the stream.
DeOk(val, rest) == [ok |-> TRUE, val |-> val, rest |-> rest, err |-> NoErr]
DeErr(e, rest) == [ok |-> FALSE, val |-> <<>>, rest |-> rest, err |-> e]

(***************************************************************************)
(* de/deserializer.rs: serde::de::Deserializer for &mut ReadDeserializer,  *)
(* with the visitor's visit_bool / visit_u8 / ... returning the value.     *)
(***************************************************************************)
\* A deserialize_bool that takes every non-zero byte for true, which C17
\* excludes.
deserialize_bool_nonzero(r) ==
  LET b == read_bytes(r, 1) IN DeOk(Val(TBool, b.buf[1] # 0), b.rest)

deserialize_bool(r) ==
  LET b == read_bytes(r, 1) IN
  CASE b.buf[1] = 0 -> DeOk(Val(TBool, FALSE), b.rest)
    [] b.buf[1] = 1 -> DeOk(Val(TBool, TRUE), b.rest)
    [] OTHER -> DeErr(ErrOverflow, b.rest)

deserialize_u8(r) ==
  LET b == read_bytes(r, 1) IN DeOk(Val(TU8, from_le_bytes_unsigned(b.buf)), b.rest)

deserialize_i16(r) ==
  LET b == read_bytes(r, 2) IN DeOk(Val(TI16, from_le_bytes_signed(b.buf)), b.rest)

deserialize_i32(r) ==
  LET b == read_bytes(r, 4) IN DeOk(Val(TI32, from_le_bytes_signed(b.buf)), b.rest)

deserialize_i8(r) ==
  LET b == read_bytes(r, 1) IN DeOk(Val(TI8, from_le_bytes_signed(b.buf)), b.rest)

\* A deserialize_i64 that reads the value as unsigned, which C15 excludes.
deserialize_i64_unsigned(r) ==
  LET b == read_bytes(r, 8) IN DeOk(Val(TI64, from_le_bytes_wide(b.buf, FALSE)), b.rest)

deserialize_i64(r) ==
  LET b == read_bytes(r, 8) IN DeOk(Val(TI64, from_le_bytes_wide(b.buf, TRUE)), b.rest)

deserialize_u16(r) ==
  LET b == read_bytes(r, 2) IN DeOk(Val(TU16, from_le_bytes_unsigned(b.buf)), b.rest)

deserialize_u32(r) ==
  LET b == read_bytes(r, 4) IN DeOk(Val(TU32, from_le_bytes_wide(b.buf, FALSE)), b.rest)

deserialize_u64(r) ==
  LET b == read_bytes(r, 8) IN DeOk(Val(TU64, from_le_bytes_wide(b.buf, FALSE)), b.rest)

\* ReadDeserializer::read_uleb128_vec: vec![0; size], then one read into
\* it.  The streams tried keep size small enough to be a length here.
read_vec(u) ==
  IF ~u.ok THEN [ok |-> FALSE, err |-> u.err, buf |-> <<>>, rest |-> u.rest]
  ELSE [ok |-> TRUE, err |-> NoErr] @@ read(u.rest, NatLe(u.size))
read_uleb128_vec(r) == read_vec(read_uleb128(r))

\* A visit_string that hands on an empty text for an invalid payload, which
\* C22 excludes.
visit_string_lossy(str, rest) == DeOk(Val(TString, str.chars), rest)
\* `String::from_utf8(bytes).map_err(|_err| crate::Error::Overflow)?` and
\* visitor.visit_string(str), the rest of the stream being rest.
visit_string(str, rest) ==
  IF ~str.ok THEN DeErr(ErrOverflow, rest) ELSE DeOk(Val(TString, str.chars), rest)
\* deserialize_string after `self.read_uleb128_vec()` gave bytes.
string_of(bytes) ==
  IF ~bytes.ok THEN DeErr(bytes.err, bytes.rest)
  ELSE visit_string(from_utf8(bytes.buf, <<>>), bytes.rest)
deserialize_string(r) == string_of(read_uleb128_vec(r))

\* A deserialize_option that answers None, which C12 excludes.
deserialize_option_none(r) == DeOk(Val(TOption(TU8), <<>>), r)
deserialize_any(r) == DeErr(ErrUnsupported, r)
deserialize_char(r) == DeErr(ErrUnsupported, r)
deserialize_bytes(r) == DeErr(ErrUnsupported, r)
deserialize_byte_buf(r) == DeErr(ErrUnsupported, r)
deserialize_option(r) == DeErr(ErrUnsupported, r)
deserialize_unit(r) == DeErr(ErrUnsupported, r)
deserialize_unit_struct(r) == DeErr(ErrUnsupported, r)
deserialize_seq(r) == DeErr(ErrUnsupported, r)
deserialize_map(r) == DeErr(ErrUnsupported, r)
deserialize_enum(r) == DeErr(ErrUnsupported, r)
deserialize_identifier(r) == DeErr(ErrUnsupported, r)
deserialize_ignored_any(r) == DeErr(ErrUnsupported, r)

(***************************************************************************)
(* serde::de::Deserialize: the impl each type brings to a Deserializer.    *)
(* The impls of the four wrappers are those of de/deserialize.rs, which    *)
(* refuse; a tuple or derived struct calls deserialize_tuple /             *)
(* deserialize_struct with a visitor whose visit_seq asks the accessor for *)
(* one element per field.                                                  *)
(***************************************************************************)
CannotDeserialize(kind) ==
  CASE kind = "VecI16Flags" ->
         ErrMessage("Cannot deserialize VecI16Flags with the serde Deserializer")
    [] kind = "VecULEB128" ->
         ErrMessage("Cannot deserialize VecULEB128 with the serde Deserializer")
    [] kind = "VecI16" ->
         ErrMessage("Cannot deserialize VecI16 with the serde Deserializer")
    [] kind = "VecI32" ->
         ErrMessage("Cannot deserialize VecI32 with the serde Deserializer")

RECURSIVE serde_Deserialize(_, _)
RECURSIVE fields_visit_seq(_, _, _, _)

\* de/accessor.rs: ValueSized::next_element_seed with a seed that
\* deserializes a t.  Returns Ok(None) (some = FALSE), Ok(Some(val)) or the
\* error, the unread rest, and the accessor's size field after the call.
\* A next_element_seed that also takes the byte after the element, which
\* C30 excludes.
next_element_seed_greedy(size, t, r) ==
  IF usize_is_zero(size)
  THEN [ok |-> TRUE, some |-> FALSE, val |-> <<>>, rest |-> r,
        err |-> NoErr, size |-> size]
  ELSE LET d == serde_Deserialize(t, r) IN
       [ok |-> d.ok, some |-> d.ok, val |-> d.val,
        rest |-> SubSeq(d.rest, 2, Len(d.rest)), err |-> d.err, size |-> size]
next_element_seed(size, t, r) ==
  IF usize_is_zero(size)
  THEN [ok |-> TRUE, some |-> FALSE, val |-> <<>>, rest |-> r,
        err |-> NoErr, size |-> size]
  ELSE LET d == serde_Deserialize(t, r) IN
       [ok |-> d.ok, some |-> d.ok, val |-> d.val, rest |-> d.rest,
        err |-> d.err, size |-> size]

\* ValueSized::size_hint.
size_hint(size) == size

\* deserialize_tuple(len, visitor): the accessor handed to visit_seq.
deserialize_tuple(len) == as_usize(len)
\* deserialize_tuple_struct(name, len, visitor).
deserialize_tuple_struct(len) == deserialize_tuple(len)
\* deserialize_struct(name, fields, visitor).
deserialize_struct(fields_len) == deserialize_tuple(fields_len)
\* The accessor size a tuple, tuple struct or struct type asks for.
product_size(t) ==
  CASE t.k = "tuple" -> deserialize_tuple(Len(t.sub))
    [] t.k = "tuple_struct" -> deserialize_tuple_struct(Len(t.sub))
    [] t.k = "struct" -> deserialize_struct(Len(KeysOf(t)))

\* serde's error for a tuple visitor that was given too few elements.
InvalidLength == ErrMessage("invalid length")

\* visit_seq of a tuple or derived-struct visitor: one next_element per
\* field, in declared order; ts are the fields still to decode, got the
\* values so far.
fields_visit_seq(ts, size, r, got) ==
  IF ts = <<>> THEN DeOk(got, r)
  ELSE LET e == next_element_seed(size, Head(ts), r) IN
       IF ~e.ok THEN DeErr(e.err, e.rest)
       ELSE IF ~e.some THEN DeErr(InvalidLength, e.rest)
       ELSE fields_visit_seq(Tail(ts), e.size, e.rest, Append(got, e.val))

serde_Deserialize(t, r) ==
  CASE t.k = "bool" -> deserialize_bool(r)
    [] t.k = "u8" -> deserialize_u8(r)
    [] t.k = "i16" -> deserialize_i16(r)
    [] t.k = "i32" -> deserialize_i32(r)
    [] t.k \in ProductKinds ->
         LET size == product_size(t)
             f == fields_visit_seq(t.sub, size, r, <<>>)
         IN  IF f.ok THEN DeOk(Val(t, f.val), f.rest) ELSE f
    [] t.k = "i8" -> deserialize_i8(r)
    [] t.k = "i64" -> deserialize_i64(r)
    [] t.k = "u16" -> deserialize_u16(r)
    [] t.k = "u32" -> deserialize_u32(r)
    [] t.k = "u64" -> deserialize_u64(r)
    [] t.k = "string" -> deserialize_string(r)
    [] t.k = "any" -> deserialize_any(r)
    [] t.k = "char" -> deserialize_char(r)
    [] t.k = "bytes" -> deserialize_bytes(r)
    [] t.k = "byte_buf" -> deserialize_byte_buf(r)
    [] t.k = "option" -> deserialize_option(r)
    [] t.k = "unit" -> deserialize_unit(r)
    [] t.k = "unit_struct" -> deserialize_unit_struct(r)
    [] t.k = "seq" -> deserialize_seq(r)
    [] t.k = "map" -> deserialize_map(r)
    [] t.k = "enum" -> deserialize_enum(r)
    [] t.k = "identifier" -> deserialize_identifier(r)
    [] t.k = "ignored_any" -> deserialize_ignored_any(r)
    [] t.k \in VecKinds -> DeErr(CannotDeserialize(t.k), r)

(***************************************************************************)
(* de/deserializer.rs: crate::de::Deserializer, the four collection hooks. *)
(* Each reads its prefix, builds the ValueSized accessor and hands it to   *)
(* one method of the visitor: [ok, err, size of the accessor, rest of the  *)
(* stream, visit: the visitor method called].                              *)
(***************************************************************************)
HookOk(size, rest, method) ==
  [ok |-> TRUE, err |-> NoErr, size |-> size, rest |-> rest, visit |-> method]

deserialize_vec_i16flags(r) ==
  LET b == read_bytes(r, 2)
      len == as_usize(from_le_bytes_signed(b.buf))
  IN  HookOk(usize_div8(len), b.rest, "visit_seq")

deserialize_vec_i16(r) ==
  LET b == read_bytes(r, 2)
      len == as_usize(from_le_bytes_signed(b.buf))
  IN  HookOk(len, b.rest, "visit_seq")

deserialize_vec_i32(r) ==
  LET b == read_bytes(r, 4)
      len == as_usize(from_le_bytes_signed(b.buf))
  IN  HookOk(len, b.rest, "visit_seq")

deserialize_vec_uleb128(r) ==
  LET u == read_uleb128(r) IN
  IF u.ok THEN HookOk(u.size, u.rest, "visit_seq")
  ELSE [ok |-> FALSE, err |-> u.err, size |-> u.size, rest |-> u.rest,
        visit |-> "none"]

\* de/deserialize.rs: crate::de::Deserialize for the four wrappers, each
\* calling its own hook with its own visitor.
Deserialize_hook(t, r) ==
  CASE t.k = "VecI16Flags" -> deserialize_vec_i16flags(r)
    [] t.k = "VecULEB128" -> deserialize_vec_uleb128(r)
    [] t.k = "VecI16" -> deserialize_vec_i16(r)
    [] t.k = "VecI32" -> deserialize_vec_i32(r)

(***************************************************************************)
(* de/visitor.rs: the four collection visitors.                            *)
(***************************************************************************)
\* The one visit method each visitor implements; every other method,
\* visit_seq included, is the trait's default that fails with a type error.
visitor_method(kind) ==
  CASE kind = "VecI16Flags" -> "visit_vec_i16flags"
    [] kind = "VecULEB128" -> "visit_vec_uleb128"
    [] kind = "VecI16" -> "visit_vec_i16"
    [] kind = "VecI32" -> "visit_vec_i32"

\* Error::invalid_type(Unexpected::Seq, &self), with the visitor's expecting.
InvalidType(kind) ==
  CASE kind = "VecI16Flags" ->
         ErrMessage("invalid type: sequence, expected a u16-sized list of bools")
    [] kind = "VecULEB128" ->
         ErrMessage("invalid type: sequence, expected a uleb128-sized list")
    [] kind = "VecI16" ->
         ErrMessage("invalid type: sequence, expected a u16-sized list")
    [] kind = "VecI32" ->
         ErrMessage("invalid type: sequence, expected a u32-sized list")

\* The element type a visitor asks the accessor for: next_element::<u8>() in
\* the flags visitor, next_element::<T>() in the others.
visitor_element(t) == IF t.k = "VecI16Flags" THEN TU8 ELSE t.sub[1]

\* VecI16FlagsVisitor: the eight booleans pushed for one element byte.
flag_bits(element) ==
  [i \in 1..8 |-> Val(TBool, ((element \div (2 ^ (i - 1))) % 2) # 0)]

\* What one loop iteration adds to inner_vec.
visitor_push(t, inner, element) ==
  IF t.k = "VecI16Flags" THEN inner \o flag_bits(element.v)
  ELSE Append(inner, element)

(***************************************************************************)
(* The state: one codec call at a time, followed step by step where the    *)
(* code loops over an accessor.                                            *)
(***************************************************************************)
VARIABLES
  pc,         \* "idle", "visit" (a collection visitor's loop), "fields" (a
              \* tuple visitor's visit_seq), "done"
  call,       \* the call in flight or just finished: [fn, ty, arg, src, pre]
  reader,     \* ReadDeserializer.reader: the bytes not read yet
  writer,     \* WriteSerializer.writer: the sink's bytes
  acc,        \* the ValueSized accessor: [size, made (its size when built)]
  calls,      \* next_element_seed calls made on acc
  decodes,    \* element decodes started by those calls
  inner_vec,  \* the elements the visitor has collected
  result      \* the call's outcome: [state, val, err]

vars == <<pc, call, reader, writer, acc, calls, decodes, inner_vec, result, sink>>

NoCall == [fn |-> "none", ty |-> TBool, arg |-> <<>>, src |-> <<>>, pre |-> <<>>]
NoAcc == [size |-> as_usize(0), made |-> as_usize(0)]
Pending == [state |-> "pending", val |-> <<>>, err |-> NoErr]
ResOk(val) == [state |-> "ok", val |-> val, err |-> NoErr]
ResErr(e) == [state |-> "err", val |-> <<>>, err |-> e]

Init ==
  /\ pc = "idle"
  /\ call = NoCall
  /\ reader = <<>>
  /\ writer = <<>>
  /\ acc = NoAcc
  /\ calls = 0
  /\ decodes = 0
  /\ inner_vec = <<>>
  /\ result = Pending
  /\ sink \in Sinks

(***************************************************************************)
(* The inputs the calls are tried on.                                      *)
(***************************************************************************)
\* Longest flag collection handed to an encode.
MaxFlags == 9
\* Most bytes a sink held before a to_writer whose sink is written to again.
MaxKept == 1
\* Most bytes that follow an encoding when it is read back.
MaxTrail == 1
\* Largest size an accessor is built with when a visitor is called directly.
MaxSize == 2

SeqsUpTo(S, n) == UNION {[1..k -> S] : k \in 0..n}

StreamBytes == {0, 1, 3, 9, 255}
Streams == SeqsUpTo(StreamBytes, MaxStream)
Trails == SeqsUpTo({1, 255}, MaxTrail)
\* What the sink holds before a call.
Pres == {<<>>, <<7>>}

BoolVals == {Val(TBool, b) : b \in BOOLEAN}
U8Vals == {Val(TU8, n) : n \in {0, 5, 255}}
I16Vals == {Val(TI16, n) : n \in {3, -2}}
I32Vals == {Val(TI32, n) : n \in {1, 2, 3, -1}}
I8Vals == {Val(TI8, n) : n \in {-128, -1, 0, 127}}
U16Vals == {Val(TU16, n) : n \in {0, 258, 65535}}
U32Vals == {Val(TU32, n) : n \in {<<0, 0>>, <<1, 2>>, <<65535, 65535>>}}
I64Vals ==
  {Val(TI64, n) : n \in {<<0, 0, 0, 258>>, <<-1, 65535, 65535, 65535>>,
                         <<-32768, 0, 0, 0>>, <<32767, 65535, 65535, 65535>>}}
U64Vals ==
  {Val(TU64, n) : n \in {<<0, 0, 0, 0>>, <<1, 2, 3, 4>>,
                         <<65535, 65535, 65535, 65535>>}}
\* "", "hi", the chars at the ends of each UTF-8 length, U+E9 U+20AC
\* U+1F600 after an "a", and a text of LongText times U+1F600.
StringVals ==
  {Val(TString, s) :
     s \in {<<>>, <<104, 105>>, <<127>>, <<128>>, <<2047>>, <<2048>>,
            <<65535>>, <<65536>>, <<1114111>>, <<97, 233, 8364, 128512>>,
            [i \in 1..LongText |-> 128512]}}
TLabelled == TTuple(<<TU8, TString, TBool>>)
LabelledVals ==
  {Val(TLabelled, <<Val(TU8, 5), Val(TString, <<233, 97>>), Val(TBool, TRUE)>>)}
\* A tuple with a TLabelled inside.
TTagged == TTuple(<<TI16, TLabelled>>)
TaggedVals == {Val(TTagged, <<Val(TI16, -2), l>>) : l \in LabelledVals}
\* The streams a String is asked of: a length up to 3, then up to 3 bytes
\* of "A", U+E9's two bytes, or a lone 80.
TextStreams ==
  {<<>>} \cup {<<n>> \o p : n \in 0..3, p \in SeqsUpTo({65, 195, 169, 128}, MaxText)}
\* Streams whose payload is an overlong form, a surrogate, a char past
\* U+10FFFF, a cut sequence, a byte that starts nothing, and U+20AC.
OddTextStreams ==
  {<<2, 192, 128>>, <<3, 237, 160, 128>>, <<4, 244, 144, 128, 128>>,
   <<2, 226, 130>>, <<1, 255>>, <<3, 226, 130, 172>>, <<3, 226, 130, 172, 9>>}
\* The ends of the i16 and i32 ranges.
EndVals ==
  {Val(TI16, -32768), Val(TI16, 32767),
   Val(TI32, -2147483647 - 1), Val(TI32, 2147483647)}
ScalarVals ==
  BoolVals \cup U8Vals \cup I16Vals \cup I32Vals \cup I8Vals \cup U16Vals
  \cup U32Vals \cup I64Vals \cup U64Vals \cup EndVals \cup StringVals

TPair == TTuple(<<TU8, TI16>>)
TRecord == TStruct(<<TI16, TBool, TI32>>)
TNested == TTuple(<<TBool, TPair>>)
TWithVec == TTuple(<<TU8, TVecI16(TU8)>>)
\* The fields of TPair as a named struct and as a tuple struct.
TPoint == TNamedStruct("Point", <<"x", "y">>, <<TU8, TI16>>)
TPairStruct == TTupleStruct("Pair", <<TU8, TI16>>)
PairVals == {Val(TPair, <<a, b>>) : a \in U8Vals, b \in I16Vals}
RecordVals ==
  {Val(TRecord, <<a, b, c>>) : a \in I16Vals, b \in BoolVals, c \in {Val(TI32, 1), Val(TI32, -1)}}
NestedVals == {Val(TNested, <<a, b>>) : a \in BoolVals, b \in PairVals}
WithVecVals ==
  {Val(TWithVec, <<a, VecOf(TVecI16(TU8), b)>>) : a \in {Val(TU8, 5)}, b \in SeqsUpTo(U8Vals, 1)}
TWithOption == TTuple(<<TU8, TOption(TU8), TU8>>)
\* A tuple whose second field is a tuple with an Option in the middle.
TDeep == TTuple(<<TU8, TTuple(<<TBool, TOption(TU8), TI16>>), TU8>>)
\* Values of the kinds the format has no representation for.
EnumVals ==
  {Val(TEnum, [variant |-> "unit", fields |-> <<>>]),
   Val(TEnum, [variant |-> "newtype", fields |-> <<Val(TU8, 5)>>]),
   Val(TEnum, [variant |-> "tuple", fields |-> <<Val(TU8, 5), Val(TBool, TRUE)>>]),
   Val(TEnum, [variant |-> "struct", fields |-> <<Val(TI16, 3)>>])}
UnsupportedVals ==
  {Val(TOption(TU8), <<>>), Val(TOption(TU8), <<Val(TU8, 5)>>),
   Val(TUnit, <<>>), Val(TUnitStruct, <<>>), Val(TMap, <<>>),
   Val(TBytes, <<1, 2>>), Val(TByteBuf, <<>>), Val(TSeq(TU8), <<Val(TU8, 5)>>),
   Val(TWithOption, <<Val(TU8, 5), Val(TOption(TU8), <<>>), Val(TU8, 0)>>),
   Val(TDeep, <<Val(TU8, 5),
                Val(TTuple(<<TBool, TOption(TU8), TI16>>),
                    <<Val(TBool, TRUE), Val(TOption(TU8), <<>>), Val(TI16, 3)>>),
                Val(TU8, 0)>>)}
  \cup {Val(TChar, 65)} \cup EnumVals
UnsupportedTypes ==
  {TOption(TU8), TUnit, TUnitStruct, TChar, TMap, TBytes, TByteBuf, TSeq(TU8),
   TEnum, TAny, TIdentifier, TIgnoredAny, TWithOption, TDeep}
SameFieldVals == {Val(t, p.v) : t \in {TPoint, TPairStruct}, p \in PairVals}
ProductVals ==
  PairVals \cup RecordVals \cup NestedVals \cup WithVecVals \cup SameFieldVals

\* The element types the collections are tried with.
ElemVals(t) ==
  CASE t = TI32 -> {Val(TI32, n) : n \in {1, 2, 3}}
    [] t = TU8 -> {Val(TU8, 0), Val(TU8, 255)}
    [] t = TPair -> {Val(TPair, <<Val(TU8, 5), Val(TI16, -2)>>)}
    [] t = TVecI32(TI32) ->
         {VecOf(TVecI32(TI32), x) : x \in SeqsUpTo({Val(TI32, 1)}, 1)}
ElemTypes == {TI32, TU8, TPair, TVecI32(TI32)}
CountTypes(t) == {TVecI16(t), TVecI32(t), TVecULEB128(t)}

CountValsOf(t, n) ==
  UNION {{VecOf(ct, x) : x \in SeqsUpTo(ElemVals(t), n)} : ct \in CountTypes(t)}
CountVals ==
  CountValsOf(TI32, MaxLen) \cup CountValsOf(TU8, MaxLen)
  \cup CountValsOf(TPair, MaxLen - 1) \cup CountValsOf(TVecI32(TI32), MaxLen - 1)
FlagVals == {VecOf(TVecI16Flags, x) : x \in SeqsUpTo(BoolVals, MaxFlags)}

\* Lengths one past what a prefix holds: i16::MAX + 1 and i32::MAX + 1.
PastI16 == <<0, 128, 0, 0, 0, 0, 0, 0>>
PastI32 == <<0, 0, 0, 128, 0, 0, 0, 0>>
LongVals ==
  {VecRepeat(TVecI16(TU8), PastI16, Val(TU8, 0)),
   VecRepeat(TVecI16Flags, PastI16, Val(TBool, TRUE)),
   VecRepeat(TVecI16(TU8), PastI32, Val(TU8, 0)),
   VecRepeat(TVecI32(TU8), PastI32, Val(TU8, 0))}

DecTypes ==
  {TBool, TU8, TI16, TI32, TI8, TU16, TU32, TI64, TU64, TPair, TRecord, TNested, TWithVec, TVecI16Flags,
   TPoint, TPairStruct}
  \cup UnsupportedTypes
  \cup UNION {CountTypes(t) : t \in {TU8, TI16, TPair, TVecI32(TU8)}}
VisitTypes ==
  {TVecI16Flags} \cup UNION {CountTypes(t) : t \in {TU8, TBool}}

(***************************************************************************)
(* The calls.                                                              *)
(***************************************************************************)
\* ser/mod.rs: to_writer(writer, value) on a sink that already holds pre.
to_writer_on(value, pre) ==
  /\ LET r == to_writer(pre, value) IN
       /\ writer' = r.w
       /\ result' = IF r.ok THEN ResOk(<<>>) ELSE ResErr(r.err)
  /\ call' = [fn |-> "to_writer", ty |-> value.ty, arg |-> value,
              src |-> <<>>, pre |-> pre]
  /\ pc' = "done"
  /\ UNCHANGED <<reader, acc, calls, decodes, inner_vec, sink>>

ToWriter(value, pre) == pc = "idle" /\ to_writer_on(value, pre)

\* to_writer on the sink a successful to_writer returned: the caller keeps
\* writing, while the sink held at most MaxKept bytes before.
WriteMore(value) ==
  /\ pc = "done"
  /\ call.fn = "to_writer"
  /\ result.state = "ok"
  /\ Len(call.pre) <= MaxKept
  /\ Len(call.pre) < Len(writer)
  /\ to_writer_on(value, writer)

\* de/mod.rs: from_reader::<t>(reader) on the stream s, up to the first
\* accessor call: a wrapper goes through its crate Deserialize impl and
\* hook, every other type through its serde impl.  arg is the value the
\* stream was encoded from, if any.
from_reader(t, s, arg) ==
  /\ call' = [fn |-> "from_reader", ty |-> t, arg |-> arg, src |-> s,
              pre |-> <<>>]
  /\ calls' = 0
  /\ decodes' = 0
  /\ inner_vec' = <<>>
  /\ UNCHANGED <<writer, sink>>
  /\ CASE t.k \in VecKinds ->
            LET h == Deserialize_hook(t, s) IN
              /\ reader' = h.rest
              /\ acc' = [size |-> h.size, made |-> h.size]
              /\ IF ~h.ok
                 THEN result' = ResErr(h.err) /\ pc' = "done"
                 ELSE IF h.visit = visitor_method(t.k)
                 THEN result' = Pending /\ pc' = "visit"
                 ELSE result' = ResErr(InvalidType(t.k)) /\ pc' = "done"
       [] t.k \in ProductKinds ->
            LET size == product_size(t) IN
              /\ reader' = s
              /\ acc' = [size |-> size, made |-> size]
              /\ IF t.sub = <<>>
                 THEN result' = ResOk(Val(t, <<>>)) /\ pc' = "done"
                 ELSE result' = Pending /\ pc' = "fields"
       [] OTHER ->
            LET d == serde_Deserialize(t, s) IN
              /\ reader' = d.rest
              /\ acc' = NoAcc
              /\ result' = (IF d.ok THEN ResOk(d.val) ELSE ResErr(d.err))
              /\ pc' = "done"

FromReader(t, s) == pc = "idle" /\ from_reader(t, s, <<>>)

\* from_reader on the bytes a successful to_writer left in an empty sink,
\* followed by trail.
ReadBack(trail) ==
  /\ pc = "done"
  /\ call.fn = "to_writer"
  /\ call.pre = <<>>
  /\ result.state = "ok"
  /\ from_reader(call.ty, writer \o trail, call.arg)

\* de/visitor.rs: a collection visitor's visit_vec_* method called with a
\* ValueSized of size n over the stream s.
VisitVec(t, n, s) ==
  /\ pc = "idle"
  /\ call' = [fn |-> "visit_vec", ty |-> t, arg |-> <<>>, src |-> s,
              pre |-> <<>>]
  /\ reader' = s
  /\ acc' = [size |-> as_usize(n), made |-> as_usize(n)]
  /\ calls' = 0
  /\ decodes' = 0
  /\ inner_vec' = <<>>
  /\ result' = Pending
  /\ pc' = "visit"
  /\ UNCHANGED <<writer, sink>>

\* One turn of `while let Some(element) = seq.next_element()? { ... }` and,
\* on None, the visitor's Ok(Vec..(inner_vec)).
NextElement ==
  /\ pc = "visit"
  /\ calls < MaxCalls
  /\ LET e == next_element_seed(acc.size, visitor_element(call.ty), reader) IN
       /\ calls' = calls + 1
       /\ decodes' = decodes + (IF usize_is_zero(acc.size) THEN 0 ELSE 1)
       /\ reader' = e.rest
       /\ acc' = [acc EXCEPT !.size = e.size]
       /\ IF ~e.ok
          THEN /\ result' = ResErr(e.err)
               /\ pc' = "done"
               /\ UNCHANGED inner_vec
          ELSE IF ~e.some
          THEN /\ result' = ResOk(VecOf(call.ty, inner_vec))
               /\ pc' = "done"
               /\ UNCHANGED inner_vec
          ELSE /\ inner_vec' = visitor_push(call.ty, inner_vec, e.val)
               /\ UNCHANGED <<result, pc>>
  /\ UNCHANGED <<call, writer, sink>>

\* One field of a tuple or struct visitor's visit_seq: next_element for the
\* next declared field, and Ok(the tuple) after the last.
NextField ==
  /\ pc = "fields"
  /\ LET i == Len(inner_vec) + 1
         e == next_element_seed(acc.size, call.ty.sub[i], reader)
     IN
       /\ calls' = calls + 1
       /\ decodes' = decodes + (IF usize_is_zero(acc.size) THEN 0 ELSE 1)
       /\ reader' = e.rest
       /\ acc' = [acc EXCEPT !.size = e.size]
       /\ IF ~e.ok
          THEN /\ result' = ResErr(e.err)
               /\ pc' = "done"
               /\ UNCHANGED inner_vec
          ELSE IF ~e.some
          THEN /\ result' = ResErr(InvalidLength)
               /\ pc' = "done"
               /\ UNCHANGED inner_vec
          ELSE /\ inner_vec' = Append(inner_vec, e.val)
               /\ IF i = Len(call.ty.sub)
                  THEN /\ result' = ResOk(Val(call.ty, Append(inner_vec, e.val)))
                       /\ pc' = "done"
                  ELSE UNCHANGED <<result, pc>>
  /\ UNCHANGED <<call, writer, sink>>

\* WriteSerializer::write_uleb128(val) on a sink that already holds pre.
WriteUleb128(val, pre) ==
  /\ pc = "idle"
  /\ LET r == write_uleb128(pre, val) IN
       /\ writer' = r.w
       /\ result' = IF r.ok THEN ResOk(<<>>) ELSE ResErr(r.err)
  /\ call' = [fn |-> "write_uleb128", ty |-> TU64, arg |-> val,
              src |-> <<>>, pre |-> pre]
  /\ pc' = "done"
  /\ UNCHANGED <<reader, acc, calls, decodes, inner_vec, sink>>

\* ReadDeserializer::read_uleb128() on the stream s.
read_uleb128_on(s, arg) ==
  /\ LET u == read_uleb128(s) IN
       /\ reader' = u.rest
       /\ result' = IF u.ok THEN ResOk(u.size) ELSE ResErr(u.err)
  /\ call' = [fn |-> "read_uleb128", ty |-> TU64, arg |-> arg, src |-> s,
              pre |-> <<>>]
  /\ calls' = 0
  /\ decodes' = 0
  /\ inner_vec' = <<>>
  /\ acc' = NoAcc
  /\ pc' = "done"
  /\ UNCHANGED <<writer, sink>>

ReadUleb128(s) == pc = "idle" /\ read_uleb128_on(s, <<>>)

\* read_uleb128 on the bytes a write_uleb128 left in an empty sink,
\* followed by trail.
ReadUleb128Back(trail) ==
  /\ pc = "done"
  /\ call.fn = "write_uleb128"
  /\ call.pre = <<>>
  /\ result.state = "ok"
  /\ read_uleb128_on(writer \o trail, call.arg)

Ones(n) == [i \in 1..n |-> 255]
\* The values handed to write_uleb128: small ones, 2^63 - 1, 2^63, u64::MAX.
UlebVals ==
  {into_u64(n) : n \in {0, 1, 127, 128, 300, 16383, 16384, 2097152}}
  \cup {Ones(7) \o <<127>>, Zeros(7) \o <<128>>, Ones(8)}
\* The streams handed to read_uleb128: short ones, and ones of nine groups
\* and more.
UlebStreams ==
  SeqsUpTo({0, 127, 128, 255}, MaxVarint)
  \cup {Ones(9) \o t : t \in {<<>>, <<1>>, <<2>>, <<127>>, <<1, 9>>, <<2, 9>>,
                               <<129, 0>>, <<255, 0>>, <<255, 1, 3>>}}

EncVals ==
  ScalarVals \cup ProductVals \cup CountVals \cup FlagVals \cup LongVals
  \cup UnsupportedVals \cup LabelledVals \cup TaggedVals
VisitSizes == 0..MaxSize

\* What is written to a sink a to_writer returned.
MoreVals == {Val(TI16, -2), Val(TString, <<104, 105>>), Val(TUnit, <<>>)}
Encode == pc = "idle" /\ \E v \in EncVals, pre \in Pres : ToWriter(v, pre)
EncodeMore == pc = "done" /\ \E v \in MoreVals : WriteMore(v)
Decode == pc = "idle" /\ \E t \in DecTypes, s \in Streams : FromReader(t, s)
DecodeText ==
  pc = "idle" /\ \E s \in TextStreams \cup OddTextStreams : FromReader(TString, s)
DecodeBack == pc = "done" /\ \E trail \in Trails : ReadBack(trail)
EncodeVarint == pc = "idle" /\ \E v \in UlebVals, pre \in Pres : WriteUleb128(v, pre)
DecodeVarint == pc = "idle" /\ \E s \in UlebStreams : ReadUleb128(s)
DecodeVarintBack == pc = "done" /\ \E trail \in Trails : ReadUleb128Back(trail)
Visit ==
  pc = "idle" /\ \E t \in VisitTypes, n \in VisitSizes, s \in Streams : VisitVec(t, n, s)

Next ==
  \/ Encode
  \/ EncodeMore
  \/ Decode
  \/ DecodeText
  \/ DecodeBack
  \/ Visit
  \/ EncodeVarint
  \/ DecodeVarint
  \/ DecodeVarintBack
  \/ NextElement
  \/ NextField

Spec == Init /\ [][Next]_vars

(***************************************************************************)
(* The wire layout the specification gives (its section 6), independent of *)
(* the serializer above: what each value's bytes ought to be.              *)
(***************************************************************************)
RECURSIVE Uleb(_)
\* The ULEB128 bytes of the natural n.
Uleb(n) == IF n < 128 THEN <<n>> ELSE <<128 + (n % 128)>> \o Uleb(n \div 128)

CeilDiv8(b) == (b + 7) \div 8

\* b booleans packed eight to a byte, least significant bit first, the
\* unused high bits of the last byte zero.
PackBits(bools) ==
  LET bit(k) == IF k <= Len(bools) /\ bools[k].v THEN 1 ELSE 0 IN
  [j \in 1..CeilDiv8(Len(bools)) |->
     bit(8 * j - 7) + 2 * bit(8 * j - 6) + 4 * bit(8 * j - 5)
     + 8 * bit(8 * j - 4) + 16 * bit(8 * j - 3) + 32 * bit(8 * j - 2)
     + 64 * bit(8 * j - 1) + 128 * bit(8 * j)]

\* The bit width of an integer type.
BitWidth(k) ==
  CASE k \in {"i8", "u8"} -> 8
    [] k \in {"i16", "u16"} -> 16
    [] k \in {"i32", "u32"} -> 32
    [] k \in {"i64", "u64"} -> 64
\* Byte i (0 the least significant) of the two's complement of an integer:
\* floor(v / 256^i) mod 256, taken in its limb for a value held as limbs.
TwosByte(value, i) ==
  IF value.ty.k \in WideKinds
  THEN (value.v[Len(value.v) - (i \div 2)] \div (256 ^ (i % 2))) % 256
  ELSE (value.v \div (256 ^ i)) % 256

\* The UTF-8 bytes of the chars tried, from the Unicode standard's table.
Utf8Of(c) ==
  CASE c = 65 -> <<65>>
    [] c = 97 -> <<97>>
    [] c = 192 -> <<195, 128>>
    [] c = 104 -> <<104>>
    [] c = 105 -> <<105>>
    [] c = 127 -> <<127>>
    [] c = 128 -> <<194, 128>>
    [] c = 233 -> <<195, 169>>
    [] c = 2047 -> <<223, 191>>
    [] c = 2048 -> <<224, 160, 128>>
    [] c = 8364 -> <<226, 130, 172>>
    [] c = 65535 -> <<239, 191, 191>>
    [] c = 65536 -> <<240, 144, 128, 128>>
    [] c = 128512 -> <<240, 159, 152, 128>>
    [] c = 1114111 -> <<244, 143, 191, 191>>
RECURSIVE Utf8(_)
Utf8(chars) == IF chars = <<>> THEN <<>> ELSE Utf8Of(Head(chars)) \o Utf8(Tail(chars))

RECURSIVE Layout(_)
RECURSIVE LayoutAll(_)
LayoutAll(values) ==
  IF values = <<>> THEN <<>> ELSE Layout(Head(values)) \o LayoutAll(Tail(values))
Layout(value) ==
  CASE value.ty.k = "bool" -> <<IF value.v THEN 1 ELSE 0>>
    [] value.ty.k = "u8" -> <<value.v>>
    [] value.ty.k = "i16" -> to_le_bytes(value.v, 2)
    [] value.ty.k = "i32" -> to_le_bytes(value.v, 4)
    [] value.ty.k \in {"i8", "u16", "u32", "i64", "u64"} ->
         [i \in 1..BitWidth(value.ty.k) \div 8 |-> TwosByte(value, i - 1)]
    [] value.ty.k = "string" -> Uleb(Len(Utf8(value.v))) \o Utf8(value.v)
    [] value.ty.k \in ProductKinds -> LayoutAll(value.v)
    [] value.ty.k = "VecI16" ->
         to_le_bytes(Len(value.v.at), 2) \o LayoutAll(value.v.at)
    [] value.ty.k = "VecI32" ->
         to_le_bytes(Len(value.v.at), 4) \o LayoutAll(value.v.at)
    [] value.ty.k = "VecULEB128" ->
         Uleb(Len(value.v.at)) \o LayoutAll(value.v.at)
    [] value.ty.k = "VecI16Flags" ->
         to_le_bytes(Len(value.v.at), 2) \o PackBits(value.v.at)

RECURSIVE Plain(_)
\* A type built from scalars, tuples and structs only.
Plain(t) ==
  \/ t.k \in ScalarKinds
  \/ t.k \in ProductKinds /\ \A i \in 1..Len(t.sub) : Plain(t.sub[i])

RECURSIVE Width(_)
\* The encoded length of every value of a plain type.
Width(t) ==
  CASE t.k \in {"bool", "u8", "i8"} -> 1
    [] t.k \in {"i16", "u16"} -> 2
    [] t.k \in {"i32", "u32"} -> 4
    [] t.k \in {"i64", "u64"} -> 8
    [] t.k \in ProductKinds ->
         IF t.sub = <<>> THEN 0
         ELSE Width(Head(t.sub)) + Width([t EXCEPT !.sub = Tail(t.sub)])

CountKinds == {"VecI16", "VecI32", "VecULEB128"}
Done == pc = "done"
\* A to_writer into a Vec<u8>, whose write takes every buffer whole, has
\* returned.
Encoded == Done /\ call.fn = "to_writer" /\ sink = "Vec"
\* A from_reader has returned; when it read back what a to_writer wrote,
\* that was written to a Vec<u8>.
Decoded == Done /\ call.fn = "from_reader" /\ (call.arg # <<>> => sink = "Vec")
\* Bytes the call has taken from its stream.
Consumed == Len(call.src) - Len(reader)
\* The collection handed to to_writer holds its elements explicitly and
\* their count fits every prefix.
Explicit == as_usize(Len(call.arg.v.at)) = call.arg.v.n
\* The small natural a usize denotes.
Small(u) == NatLe(SubSeq(u, 1, 4))

\* The prefix at the head of stream s for a collection of type t: its
\* length in bytes and the count (or bit count) it declares; count < 0 when
\* the stream holds no complete non-negative prefix.
PrefixOf(t, s) ==
  CASE t.k \in {"VecI16", "VecI16Flags"} ->
         [len |-> 2,
          count |-> IF Len(s) >= 2 THEN from_le_bytes_signed(SubSeq(s, 1, 2)) ELSE -1]
    [] t.k = "VecI32" ->
         [len |-> 4,
          count |-> IF Len(s) >= 4 THEN from_le_bytes_signed(SubSeq(s, 1, 4)) ELSE -1]
    [] t.k = "VecULEB128" ->
         [len |-> 1, count |-> IF Len(s) >= 1 /\ s[1] < 128 THEN s[1] ELSE -1]

\* The stream of the call starts with a well-formed flag collection: a
\* prefix declaring count bits, then ceil(count / 8) bytes.
WellFormedFlags ==
  /\ call.ty.k = "VecI16Flags"
  /\ PrefixOf(call.ty, call.src).count >= 0
  /\ Len(call.src) >= 2 + CeilDiv8(PrefixOf(call.ty, call.src).count)

(***************************************************************************)
(* The claims.                                                             *)
(***************************************************************************)

\* C1: decoding a length-prefixed collection (Count16, Count32 or
\* CountVarint) whose prefix declares n elements performs exactly n element
\* decodes, yields exactly n values and then completes, leaving the bytes
\* after the n-th element unconsumed.  Stated for the collection visitor's
\* loop over an accessor built with size n on a stream that holds n
\* fixed-width elements: no more than n decodes are ever made, no byte past
\* the n-th element is taken, and the collection returned holds n values.
C1_ExactlyDeclaredCount ==
  (call.fn = "visit_vec" /\ call.ty.k \in CountKinds
     /\ Len(call.src) >= Small(acc.made) * Width(call.ty.sub[1])) =>
    /\ decodes <= Small(acc.made)
    /\ Consumed <= Small(acc.made) * Width(call.ty.sub[1])
    /\ (Done /\ result.state = "ok") =>
         /\ Len(VecItems(result.val)) = Small(acc.made)
         /\ decodes = Small(acc.made)

\* C2: an accessor built with size n has n - k elements remaining after k
\* successful next_element calls, and answers "no more elements" exactly
\* on call n + 1.  Stated while a visitor is inside its loop (every call so
\* far succeeded) and when a collection visitor has returned.
C2_RemainingCount ==
  /\ (pc \in {"visit", "fields"} /\ calls <= Small(acc.made)) =>
       size_hint(acc.size) = as_usize(Small(acc.made) - calls)
  /\ (Done /\ call.fn = "visit_vec" /\ result.state = "ok") =>
       calls = Small(acc.made) + 1

\* C3: encoding a Count16 (Count32) collection of n elements writes n as a
\* 2-byte (4-byte) little-endian signed integer and then the n element
\* encodings in order, and nothing else; VecI16<i32> [1, 2, 3] encodes to
\* 03 00 01 00 00 00 02 00 00 00 03 00 00 00.  Every encode that succeeds
\* leaves exactly that layout after what the sink held, and an encode of
\* elements that are scalars, tuples or structs succeeds.
C3_CountPrefixLayout ==
  (Encoded /\ call.ty.k \in {"VecI16", "VecI32"} /\ Explicit) =>
    /\ Plain(call.ty.sub[1]) => result.state = "ok"
    /\ result.state = "ok" =>
         writer = call.pre
           \o to_le_bytes(Len(VecItems(call.arg)), IF call.ty.k = "VecI16" THEN 2 ELSE 4)
           \o LayoutAll(VecItems(call.arg))
    /\ (call.arg = VecOf(TVecI16(TI32), <<Val(TI32, 1), Val(TI32, 2), Val(TI32, 3)>>)) =>
         writer = call.pre \o <<3, 0, 1, 0, 0, 0, 2, 0, 0, 0, 3, 0, 0, 0>>

\* C3's case: VecI16<i32> [1, 2, 3] encoded into an empty sink.
C3_Witness ==
  /\ Encoded
  /\ call.arg = VecOf(TVecI16(TI32), <<Val(TI32, 1), Val(TI32, 2), Val(TI32, 3)>>)
  /\ call.pre = <<>>
  /\ result.state = "ok"
  /\ writer = <<3, 0, 1, 0, 0, 0, 2, 0, 0, 0, 3, 0, 0, 0>>

\* C4: encoding a CountVarint collection of n elements writes n as an
\* unsigned LEB128 integer and then the n element encodings in order.
C4_VarintPrefix ==
  (Encoded /\ call.ty.k = "VecULEB128" /\ Plain(call.ty.sub[1]) /\ Explicit) =>
    /\ result.state = "ok"
    /\ writer = call.pre \o Uleb(Len(VecItems(call.arg))) \o LayoutAll(VecItems(call.arg))

\* C5: decoding a BitFlags collection whose prefix declares b bits consumes
\* ceil(b / 8) data bytes after the 2-byte prefix: the accessor is built
\* for that many bytes and the call leaves the stream just past them.
C5_FlagBytesConsumed ==
  (call.fn = "from_reader" /\ WellFormedFlags) =>
    LET b == PrefixOf(call.ty, call.src).count IN
      /\ pc # "idle" => acc.made = as_usize(CeilDiv8(b))
      /\ Done => Consumed = 2 + CeilDiv8(b)

\* C6: decoding a BitFlags collection whose prefix declares b bits yields
\* exactly b booleans, flag 8j + i being bit i (least significant first) of
\* data byte j.
C6_FlagsDecoded ==
  (Decoded /\ WellFormedFlags) =>
    LET b == PrefixOf(call.ty, call.src).count IN
      /\ result.state = "ok"
      /\ Len(VecItems(result.val)) = b
      /\ \A k \in 1..b :
           VecItems(result.val)[k].v
             = (((call.src[2 + CeilDiv8(k)] \div (2 ^ ((k - 1) % 8))) % 2) = 1)

\* C7: encoding a BitFlags collection of b booleans writes b as a 2-byte
\* little-endian signed integer and then ceil(b / 8) bytes holding the
\* flags packed least significant bit first; [true, false, true] encodes
\* to 03 00 05.
C7_FlagsPacked ==
  (Encoded /\ call.ty.k = "VecI16Flags" /\ Explicit) =>
    /\ result.state = "ok"
    /\ writer = call.pre \o to_le_bytes(Len(VecItems(call.arg)), 2)
                  \o PackBits(VecItems(call.arg))

\* C8: encoding a collection whose count does not fit its prefix (more
\* than 32767 for Count16 and BitFlags, more than 2147483647 for Count32)
\* fails with the Overflow error and writes nothing.
C8_OverflowError ==
  (Encoded /\ call.ty.k \in VecKinds /\ call.ty.k # "VecULEB128"
     /\ (IF call.ty.k = "VecI32" THEN i32_try_from(call.arg.v.n)
         ELSE i16_try_from(call.arg.v.n)) < 0) =>
    /\ result.state = "err"
    /\ result.err = ErrOverflow
    /\ writer = call.pre

\* C9: a Count16 or Count32 collection whose elements are themselves
\* collections encodes to its prefix followed by each element's complete
\* encoding, the element's own prefix included, and decodes from it.
C9_NestedCollections ==
  /\ (Encoded /\ call.ty.k \in {"VecI16", "VecI32"} /\ call.ty.sub[1].k \in VecKinds
        /\ Explicit) =>
       /\ result.state = "ok"
       /\ writer = call.pre \o Layout(call.arg)
  /\ (Decoded /\ call.ty.k \in {"VecI16", "VecI32"} /\ call.ty.sub[1].k \in VecKinds
        /\ call.arg # <<>>) =>
       /\ result.state = "ok"
       /\ result.val = call.arg

\* C10: a tuple or struct of arity N encodes to its N field encodings
\* concatenated in declared order with nothing added, and decodes by N
\* field decodes in that order, consuming exactly the fields' bytes.
\* Every encode that succeeds leaves exactly the fields' bytes after what
\* the sink held, and succeeds when the fields are scalars, tuples or
\* structs; the decode is stated for such fields on a stream that holds
\* them all.
C10_FieldsInOrder ==
  /\ (Encoded /\ call.ty.k \in ProductKinds) =>
       /\ Plain(call.ty) => result.state = "ok"
       /\ result.state = "ok" => writer = call.pre \o LayoutAll(call.arg.v)
  /\ (call.fn = "from_reader" /\ call.ty.k \in ProductKinds /\ Plain(call.ty)
        /\ Len(call.src) >= Width(call.ty)) =>
       /\ calls <= Len(call.ty.sub)
       /\ decodes = calls
       /\ pc = "fields" =>
            /\ Len(inner_vec) = calls
            /\ LayoutAll(inner_vec) = SubSeq(call.src, 1, Consumed)
            /\ \A i \in 1..Len(inner_vec) : inner_vec[i].ty = call.ty.sub[i]
       /\ (Done /\ result.state = "ok") =>
            /\ calls = Len(call.ty.sub)
            /\ Consumed = Width(call.ty)
            /\ result.val.ty = call.ty
            /\ Layout(result.val) = SubSeq(call.src, 1, Width(call.ty))
       /\ (Done /\ call.arg # <<>>) =>
            /\ result.state = "ok"
            /\ result.val = call.arg

\* C10's case: a struct of three fields encoded, then decoded from its
\* encoding followed by a further byte, which is left in the stream.
C10_Witness ==
  /\ Decoded
  /\ call.ty = TRecord
  /\ call.arg \in RecordVals
  /\ result = ResOk(call.arg)
  /\ calls = 3
  /\ Len(reader) = 1
  /\ Len(call.src) = 8

\* The plain tuple with the fields of a struct or tuple-struct value.
AsTuple(value) == Val(TTuple(value.ty.sub), value.v)

\* C11: a named struct, a tuple struct and a plain tuple with the same
\* ordered field values encode to the same bytes and decode by the same
\* traversal: the encode of a struct or tuple struct leaves what the encode
\* of the tuple of its fields leaves, and its decode consumes the same
\* bytes, makes one accessor call per field and yields the same field
\* values or the same error as the decode of that tuple.
C11_NamesNotOnWire ==
  /\ (Encoded /\ call.ty.k \in {"struct", "tuple_struct"}) =>
       LET r == to_writer(call.pre, AsTuple(call.arg)) IN
         /\ writer = r.w
         /\ (result.state = "ok") = r.ok
         /\ result.err = r.err
         /\ Plain(call.ty) => writer = call.pre \o LayoutAll(call.arg.v)
  /\ (Decoded /\ call.ty.k \in {"struct", "tuple_struct"}) =>
       LET d == serde_Deserialize(TTuple(call.ty.sub), call.src) IN
         /\ reader = d.rest
         /\ (result.state = "ok") = d.ok
         /\ result.err = d.err
         /\ d.ok => (result.val.v = d.val.v /\ calls = Len(call.ty.sub))

\* C11's case: a struct Point { x, y } encoded to the bytes of the tuple of
\* its fields and decoded back from them, a further byte left unread.
C11_Witness ==
  /\ Decoded
  /\ call.ty = TPoint
  /\ call.arg = Val(TPoint, <<Val(TU8, 5), Val(TI16, -2)>>)
  /\ call.src = <<5, 254, 255, 1>>
  /\ result = ResOk(call.arg)
  /\ reader = <<1>>

\* C12: every unsupported decode hook (any, option, map, enum, identifier,
\* byte buffer, bytes, unit, unit struct, char, ignored-any) fails with
\* Unsupported whatever the stream holds, yields no value and takes no byte;
\* a tuple with such a field fails with it once the fields before it are
\* read.
C12_UnsupportedDecode ==
  /\ (Decoded /\ call.ty.k \in UnsupportedKinds \ {"seq"}) =>
       /\ result = ResErr(ErrUnsupported)
       /\ reader = call.src
  /\ (Decoded /\ call.ty = TWithOption) =>
       /\ result = ResErr(ErrUnsupported)
       /\ calls = 2
       /\ Consumed = Min(1, Len(call.src))

\* C12's case: an Option<u8> asked of a stream that holds the bytes 01 03.
C12_Witness ==
  /\ Decoded
  /\ call.ty = TOption(TU8)
  /\ call.src = <<1, 3>>
  /\ result = ResErr(ErrUnsupported)
  /\ reader = <<1, 3>>

\* C13: encoding an optional value (none or some), a unit or unit struct, a
\* char, a map, a raw byte buffer or an enum variant of any shape (unit,
\* newtype, tuple or struct variant) fails with Unsupported and writes
\* nothing.
C13_UnsupportedEncode ==
  (Encoded /\ call.ty.k \in UnsupportedKinds \ {"seq"}) =>
    /\ result = ResErr(ErrUnsupported)
    /\ writer = call.pre

RECURSIVE LeavesAll(_), Leaves(_), TypeLeaves(_), FirstFailing(_, _), Walk(_, _, _)
\* The values a value is made of that are no tuple or struct, in field
\* order.
LeavesAll(values) ==
  IF values = <<>> THEN <<>> ELSE Leaves(Head(values)) \o LeavesAll(Tail(values))
Leaves(value) ==
  IF value.ty.k \in ProductKinds THEN LeavesAll(value.v) ELSE <<value>>
\* The same for a type.
TypeLeaves(t) ==
  IF t.k \in ProductKinds
  THEN IF t.sub = <<>> THEN <<>>
       ELSE TypeLeaves(Head(t.sub)) \o TypeLeaves([t EXCEPT !.sub = Tail(t.sub)])
  ELSE <<t>>
\* The error the format has for a leaf that is no scalar.
LeafError(k, verb) ==
  IF k \in VecKinds
  THEN ErrMessage("Cannot " \o verb \o " " \o k \o " with the serde " \o
                  (IF verb = "serialize" THEN "Serializer" ELSE "Deserializer"))
  ELSE ErrUnsupported
\* The position in leaves, from i on, of the first leaf that is no scalar
\* and no text;
\* 0 if there is none.
FirstFailing(leaves, i) ==
  IF i > Len(leaves) THEN 0
  ELSE IF leaves[i].ty.k \notin ScalarKinds \cup {"string"} THEN i
  ELSE FirstFailing(leaves, i + 1)
\* Reading the leaf types ts from position pos of the stream s: the first
\* failure (a bool byte above 1, or a leaf that is no scalar) and the
\* position reached.
Walk(ts, s, pos) ==
  IF ts = <<>> THEN [err |-> NoErr, pos |-> pos]
  ELSE LET t == Head(ts) IN
       IF t.k \notin ScalarKinds
       THEN [err |-> LeafError(t.k, "deserialize"), pos |-> pos]
       ELSE IF t.k = "bool" /\ pos < Len(s) /\ s[pos + 1] > 1
       THEN [err |-> ErrOverflow, pos |-> pos + 1]
       ELSE Walk(Tail(ts), s, Min(pos + Width(t), Len(s)))
\* No leaf of the type is a String.
NoText(t) == \A i \in 1..Len(TypeLeaves(t)) : TypeLeaves(t)[i].k # "string"
\* No leaf of the value is a newtype variant.
NoNewtypeVariant(value) ==
  \A i \in 1..Len(Leaves(value)) :
    LET l == Leaves(value)[i] IN ~(l.ty.k = "enum" /\ l.v.variant = "newtype")

C15_ScalarRoundTrip ==
  /\ (Encoded /\ call.ty.k \in ScalarKinds) => result.state = "ok"
  /\ (Decoded /\ call.ty.k \in ScalarKinds /\ call.arg # <<>>) =>
       /\ result = ResOk(call.arg)
       /\ Consumed = Width(call.ty)
       /\ call.src = SubSeq(call.src, 1, Consumed) \o reader

\* C15's case: i64::MIN encoded, then decoded from its eight bytes followed
\* by one more.
C15_Witness ==
  /\ Decoded
  /\ call.arg = Val(TI64, <<-32768, 0, 0, 0>>)
  /\ call.src = <<0, 0, 0, 0, 0, 0, 0, 128, 255>>
  /\ result = ResOk(call.arg)
  /\ reader = <<255>>

\* C16: an integer of bit width w is encoded as exactly w/8 bytes, byte i
\* being floor(v / 256^i) mod 256 (little-endian two's complement), and a
\* bool as the one byte 0 for false and 1 for true.
C16_FixedWidthLittleEndian ==
  (Encoded /\ call.ty.k \in ScalarKinds) =>
    /\ result.state = "ok"
    /\ Len(writer) = Len(call.pre) + Width(call.ty)
    /\ SubSeq(writer, 1, Len(call.pre)) = call.pre
    /\ call.ty.k = "bool" =>
         writer[Len(call.pre) + 1] = (IF call.arg.v THEN 1 ELSE 0)
    /\ call.ty.k # "bool" =>
         /\ Width(call.ty) = BitWidth(call.ty.k) \div 8
         /\ \A i \in 1..Width(call.ty) :
              writer[Len(call.pre) + i] = TwosByte(call.arg, i - 1)

\* C16's case: the u16 258 written as 02 01 after what the sink held.
C16_Witness ==
  /\ Encoded
  /\ call.arg = Val(TU16, 258)
  /\ call.pre = <<7>>
  /\ writer = <<7, 2, 1>>

\* C17: decoding a bool from a stream that holds a byte takes exactly that
\* byte and yields false for 0, true for 1 and the Overflow error, with no
\* value, for every other byte.
C17_BoolDecode ==
  (Decoded /\ call.ty = TBool /\ call.src # <<>>) =>
    /\ reader = Tail(call.src)
    /\ result = (CASE call.src[1] = 0 -> ResOk(Val(TBool, FALSE))
                   [] call.src[1] = 1 -> ResOk(Val(TBool, TRUE))
                   [] OTHER -> ResErr(ErrOverflow))

\* C17's case: the byte 03 asked for as a bool.
C17_Witness ==
  /\ Decoded
  /\ call.ty = TBool
  /\ call.src = <<3, 1>>
  /\ result = ResErr(ErrOverflow)
  /\ reader = <<1>>

\* Bit i (from 0) of a u64.
U64Bit(v, i) == IF i < 64 THEN (v[(i \div 8) + 1] \div (2 ^ (i % 8))) % 2 ELSE 0
\* The number of bits of a u64: the position of its highest set bit.
Bits(v) ==
  IF \A i \in 0..63 : U64Bit(v, i) = 0 THEN 0
  ELSE 1 + CHOOSE i \in 0..63 :
             U64Bit(v, i) = 1 /\ \A j \in (i + 1)..63 : U64Bit(v, j) = 0
\* The varint of a u64: max(1, ceil(bits / 7)) bytes, byte j holding the
\* j-th group of seven bits and the continuation bit unless it is the last.
Varint(v) ==
  LET n == IF Bits(v) = 0 THEN 1 ELSE (Bits(v) + 6) \div 7 IN
  [j \in 1..n |->
     U64Bit(v, 7 * j - 7) + 2 * U64Bit(v, 7 * j - 6) + 4 * U64Bit(v, 7 * j - 5)
     + 8 * U64Bit(v, 7 * j - 4) + 16 * U64Bit(v, 7 * j - 3)
     + 32 * U64Bit(v, 7 * j - 2) + 64 * U64Bit(v, 7 * j - 1)
     + (IF j < n THEN 128 ELSE 0)]
VarintWritten == Done /\ call.fn = "write_uleb128"
VarintRead == Done /\ call.fn = "read_uleb128"

\* C18: write_uleb128(v) succeeds and appends max(1, ceil(bits(v)/7)) bytes,
\* the least significant group of seven bits first, the continuation bit on
\* every byte but the last; read_uleb128 on those bytes returns v and takes
\* exactly those bytes, whatever follows them.
C18_VarintRoundTrip ==
  /\ VarintWritten =>
       /\ result.state = "ok"
       /\ writer = call.pre \o Varint(call.arg)
  /\ (VarintRead /\ call.arg # <<>>) =>
       /\ result = ResOk(call.arg)
       /\ Consumed = Len(Varint(call.arg))
       /\ call.src = Varint(call.arg) \o reader

\* C18's case: u64::MAX read back from its ten bytes followed by one more.
C18_Witness ==
  /\ VarintRead
  /\ call.arg = Ones(8)
  /\ call.src = Ones(9) \o <<1, 255>>
  /\ result = ResOk(Ones(8))
  /\ reader = <<255>>

\* The stream starts with a terminated varint that has a bit set past the
\* 64th.
PastU64(s) ==
  \E n \in 10..Len(s) :
    /\ s[n] < 128
    /\ \A j \in 1..(n - 1) : s[j] >= 128
    /\ \/ s[10] % 128 > 1
       \/ \E j \in 11..n : s[j] % 128 > 0

\* C19: reading a varint whose groups do not fit the target width fails
\* with the Overflow error.
C19_VarintOverflow ==
  (VarintRead /\ PastU64(call.src)) => result = ResErr(ErrOverflow)

\* C20: encoding a text appends the ULEB128 of its UTF-8 byte length and
\* then exactly its UTF-8 bytes; decoding those bytes returns the same text
\* and takes exactly those bytes, for the empty text, ASCII and multi-byte
\* chars.
C20_TextRoundTrip ==
  /\ (Encoded /\ call.ty = TString) =>
       /\ result.state = "ok"
       /\ writer = call.pre \o Uleb(Len(Utf8(call.arg.v))) \o Utf8(call.arg.v)
  /\ (Decoded /\ call.ty = TString /\ call.arg # <<>>) =>
       /\ result = ResOk(call.arg)
       /\ as_bytes(result.val.v) = Utf8(call.arg.v)
       /\ call.src = Uleb(Len(Utf8(call.arg.v))) \o Utf8(call.arg.v) \o reader

\* C20's case: "a", U+E9, U+20AC, U+1F600 decoded from its ten bytes after
\* the length 10 and before one more byte.
C20_Witness ==
  /\ Decoded
  /\ call.arg = Val(TString, <<97, 233, 8364, 128512>>)
  /\ call.src = <<10, 97, 195, 169, 226, 130, 172, 240, 159, 152, 128, 255>>
  /\ result = ResOk(call.arg)
  /\ reader = <<255>>

\* The stream of the call starts with a one-byte length L and holds the L
\* bytes it announces.
TextLen == call.src[1]
WholeText == call.src # <<>> /\ TextLen < 128 /\ Len(call.src) >= 1 + TextLen
TextPayload == SubSeq(call.src, 2, 1 + TextLen)

\* C21: a string decode that succeeds has taken the prefix and exactly the L
\* bytes it announces, and the text it returns is made of exactly those L
\* bytes of the stream.
C21_ExactPayload ==
  (Decoded /\ call.ty = TString /\ call.src # <<>> /\ TextLen < 128
     /\ result.state = "ok") =>
    /\ Consumed = 1 + TextLen
    /\ as_bytes(result.val.v) = TextPayload

\* The texts of up to MaxText + 1 chars among "A", U+C0, U+E9 and U+20AC:
\* every well-formed payload among the streams a String is asked of.
KnownTexts == SeqsUpTo({65, 192, 233, 8364}, MaxText + 1)

\* C22: decoding a string whose L payload bytes are no valid UTF-8 fails
\* with the Overflow error, with no text and after the payload was taken; a
\* valid payload decodes to its text.
C22_InvalidUtf8 ==
  (Decoded /\ call.ty = TString /\ call.arg = <<>> /\ WholeText) =>
    /\ Consumed = 1 + TextLen
    /\ IF \E cs \in KnownTexts : Utf8(cs) = TextPayload
       THEN /\ result.state = "ok"
            /\ Utf8(result.val.v) = TextPayload
       ELSE result = ResErr(ErrOverflow)

\* C22's case: a length of 3 and the surrogate ED A0 80.
C22_Witness ==
  /\ Decoded
  /\ call.ty = TString
  /\ call.src = <<3, 237, 160, 128>>
  /\ result = ResErr(ErrOverflow)
  /\ reader = <<>>

RECURSIVE LayoutKnown(_)
\* The values whose layout the specification gives and no other claim finds
\* the encoder to miss: scalars, texts, tuples and structs of such, and
\* Count16 / Count32 collections that hold such elements.
LayoutKnown(value) ==
  \/ value.ty.k \in ScalarKinds \cup {"string"}
  \/ /\ value.ty.k \in ProductKinds
     /\ \A i \in 1..Len(value.v) : LayoutKnown(value.v[i])
  \/ /\ value.ty.k \in {"VecI16", "VecI32"}
     /\ as_usize(Len(value.v.at)) = value.v.n
     /\ \A i \in 1..Len(value.v.at) : LayoutKnown(value.v.at[i])

\* C23: on success the sink to_writer returns holds what it held before the
\* call, unchanged, followed by exactly the value's encoding: the bytes the
\* value encodes to in an empty sink, which are the value's layout.
C23_SinkKept ==
  (Encoded /\ result.state = "ok") =>
    /\ Len(writer) >= Len(call.pre)
    /\ SubSeq(writer, 1, Len(call.pre)) = call.pre
    /\ SubSeq(writer, Len(call.pre) + 1, Len(writer)) = to_writer(<<>>, call.arg).w
    /\ LayoutKnown(call.arg) => writer = call.pre \o Layout(call.arg)

\* C23's case: an i16 written to the sink that a to_writer of a u8 onto the
\* byte 07 returned.
C23_Witness ==
  /\ Encoded
  /\ call.pre = <<7, 5>>
  /\ call.arg = Val(TI16, -2)
  /\ result.state = "ok"
  /\ writer = <<7, 5, 254, 255>>

\* The stream of the call holds a whole Count16 / Count32 prefix whose sign
\* bit is set.
NegativePrefix ==
  /\ call.ty.k \in {"VecI16", "VecI32"}
  /\ Len(call.src) >= PrefixOf(call.ty, call.src).len
  /\ call.src[PrefixOf(call.ty, call.src).len] >= 128

\* C24: decoding a Count16 or Count32 collection whose prefix has the sign
\* bit set fails, decodes no element, and builds no accessor whose count is
\* the negative value read as a large unsigned one.
C24_NonNegativeCount ==
  (Decoded /\ NegativePrefix) =>
    /\ result.state = "err"
    /\ decodes = 0
    /\ i32_try_from(acc.made) >= 0

\* C25: each collection decode hook hands its accessor to the method its
\* visitor implements, so no collection decode ends in the visitor's default
\* 'invalid type' error, and a stream that holds the prefix of an empty
\* collection decodes to the empty collection.
C25_HookReachesVisitor ==
  (Decoded /\ call.ty.k \in VecKinds) =>
    /\ result.err # InvalidType(call.ty.k)
    /\ (/\ Len(call.src) >= PrefixOf(call.ty, call.src).len
        /\ PrefixOf(call.ty, call.src).count = 0) =>
         /\ result.state = "ok"
         /\ VecItems(result.val) = <<>>

\* C26: a tuple with a length-prefixed collection as a field encodes that
\* field with its prefix convention (the tuple's layout is the layout of its
\* fields in order, the collection's prefix included), and a stream holding
\* such a tuple with an empty collection decodes back to it.
C26_CollectionField ==
  /\ (Encoded /\ call.ty = TWithVec) =>
       /\ result.state = "ok"
       /\ writer = call.pre \o Layout(call.arg)
  /\ (Decoded /\ call.ty = TWithVec /\ Len(call.src) >= 3
        /\ SubSeq(call.src, 2, 3) = <<0, 0>>) =>
       /\ result = ResOk(Val(TWithVec,
                             <<Val(TU8, call.src[1]), VecOf(TVecI16(TU8), <<>>)>>))
       /\ Consumed = 3

\* What to_writer added to the sink it was given.
Added == SubSeq(writer, Len(call.pre) + 1, Len(writer))

\* C27: encoder and decoder agree on the prefix of every collection type:
\* when a collection of n elements (n flags for VecI16Flags) was encoded, the
\* decode hook of the same type, run on the bytes written, succeeds, reads
\* the count n, and consumes the prefix in full: what it leaves is exactly
\* the bytes the elements were written as.
C27_PrefixAgreement ==
  (Encoded /\ call.ty.k \in VecKinds /\ Explicit /\ result.state = "ok") =>
    /\ Deserialize_hook(call.ty, Added).ok
    /\ PrefixOf(call.ty, Added).count = Len(call.arg.v.at)
    /\ Deserialize_hook(call.ty, Added).size =
         IF call.ty.k = "VecI16Flags" THEN usize_div8(call.arg.v.n)
         ELSE call.arg.v.n
    /\ Deserialize_hook(call.ty, Added).rest =
         serialize_each(VecItems(call.arg), <<>>).w

\* C28: a fixed-width scalar decode returns a value only when the stream
\* held all the bytes of its width: on a stream with fewer bytes left, the
\* empty stream included, the call fails with an IO error.
C28_ShortRead ==
  (Decoded /\ call.ty.k \in ScalarKinds) =>
    /\ result.state = "ok" => Len(call.src) >= Width(call.ty)
    /\ Len(call.src) < Width(call.ty) => result.err.kind = ErrIO.kind

\* A to_writer into any sink has returned Ok.
Written == Done /\ call.fn = "to_writer" /\ result.state = "ok"

\* C29: when an encode returns success the sink has received all the bytes
\* of the value, also when the sink takes only part of a buffer in one
\* write call: what was added to the sink is what the same encode adds to a
\* Vec<u8>, which is the value's layout.  Stated for scalars, strings and
\* collections of scalars.
C29_CompleteWrite ==
  (Written /\ LayoutKnown(call.arg)) => Added = Layout(call.arg)

RECURSIVE Supported(_)
\* A type made of scalars, strings and tuples or structs of them.
Supported(t) ==
  \/ t.k \in ScalarKinds \cup {"string"}
  \/ t.k \in ProductKinds /\ \A i \in 1..Len(t.sub) : Supported(t.sub[i])

\* C30: for a tuple or struct of scalars, strings and nested tuples,
\* from_reader on the bytes to_writer produced, followed by any trailing
\* bytes, returns the value that was encoded and takes exactly the bytes of
\* its encoding: at no step has it read past them, and when it returns the
\* trailing bytes are all still in the stream.
C30_ProductRoundTrip ==
  (call.fn = "from_reader" /\ call.arg # <<>> /\ sink = "Vec"
     /\ call.ty.k \in ProductKinds /\ Supported(call.ty)) =>
    /\ \E trail \in Trails : call.src = Layout(call.arg) \o trail
    /\ Consumed <= Len(Layout(call.arg))
    /\ Done =>
         /\ result = ResOk(call.arg)
         /\ Consumed = Len(Layout(call.arg))
         /\ call.src = Layout(call.arg) \o reader

\* C30's case: (-2, (5, "\u{e9}a", true)) read back from its eight bytes
\* followed by FF, which stays in the stream.
C30_Witness ==
  /\ Decoded
  /\ call.arg = Val(TTagged, <<Val(TI16, -2),
                               Val(TLabelled, <<Val(TU8, 5), Val(TString, <<233, 97>>),
                                                Val(TBool, TRUE)>>)>>)
  /\ call.src = <<254, 255, 5, 3, 195, 169, 97, 1, 255>>
  /\ result = ResOk(call.arg)
  /\ reader = <<255>>

====
